---------------------------- MODULE Spec2Model ----------------------------
(***************************************************************************)
(* A model of avalanche/evaluation/metrics/confusion_matrix.py:            *)
(* the ConfusionMatrix accumulator (update / result / reset) and the       *)
(* StreamConfusionMatrix plugin that drives it from the evaluation hooks.  *)
(*                                                                         *)
(* Tensors are modelled by their shape and contents:                       *)
(*   [ndim |-> 1, width |-> 0, rows |-> << <<l1>>, <<l2>>, ... >>]  labels  *)
(*   [ndim |-> 2, width |-> w, rows |-> << row1, row2, ... >>]      scores  *)
(*   [ndim |-> 3, width |-> 0, rows |-> << <<>>, ... >>]   3-D, shape only  *)
(* Indices are 0-based as in the source; sequences are 1-based, so class c *)
(* lives at position c + 1.                                                *)
(***************************************************************************)
EXTENDS Integers, Sequences, FiniteSets, TLC

(* ------------------------------ bounds -------------------------------- *)

\* longest minibatch the training loop loads while calls follow one another
MaxLen == 1
\* longest minibatch a single call is tried on
MaxBatch == 2
\* largest direct label value offered (the smallest offered is -1)
MaxLabel == 2
\* widest score vector offered
MaxWidth == 2
\* largest fixed num_classes a metric is constructed with
MaxClasses == 2
\* updates are offered only while the table holds fewer samples than this
MaxSamples == 2

(* ----------------------- values of the program ------------------------ *)

\* Python's None for num_classes (an int otherwise) and for normalize
None == -1
NoNorm == "None"

\* the normalize values a metric may be constructed with: None, the three
\* modes _normalize_cm knows, and one it does not know
Normalizations == {NoNorm, "true", "pred", "all", "rows"}

\* the exceptions update and result raise, by message
NoError == "none"
ErrSizeMismatch == "Size mismatch for true_y and predicted_y tensors"
ErrLabelsDim == "Confusion matrix supports labels with at most 2 dimensions"
ErrPredsDim == "Confusion matrix supports predictions with at most 2 dimensions"
ErrNegativePred == "Label values must be non-negative values"
ErrNegativeTrue == "Label values must be non-negative values"
ErrPredTooLarge == "Encountered predicted label larger thannum_classes"
ErrTrueTooLarge == "Encountered target label larger thannum_classes"
ErrNotPositive == "The Confusion Matrix metric can only handle positive label values"
ErrInvalidNorm == "Invalid normalization parameter. Can be 'true', 'pred' or 'all'"
\* raised by torch itself: min()/max() of an empty tensor, and max over a
\* dimension of size zero
ErrTorchEmpty == "torch: min()/max() of a tensor with no elements"
ErrTorchZeroDim == "torch: max(): Expected reduction dim 1 to have non-zero size"

(* ------------------------------ tensors ------------------------------- *)

Max2(a, b) == IF a >= b THEN a ELSE b
Min2(a, b) == IF a <= b THEN a ELSE b

\* all sequences over S of length exactly n / at most n
SeqsOfLen(S, n) == [1..n -> S]
SeqsUpTo(S, n) == UNION {SeqsOfLen(S, k) : k \in 0..n}

LabelTensor(ls) == [ndim |-> 1, width |-> 0, rows |-> [i \in 1..Len(ls) |-> <<ls[i]>>]]
ScoreTensor(w, rs) == [ndim |-> 2, width |-> w, rows |-> rs]
Tensor3D(n) == [ndim |-> 3, width |-> 0, rows |-> [i \in 1..n |-> <<>>]]

\* len(t) and t.shape[1]
TLen(t) == Len(t.rows)
Labels(t) == [i \in 1..Len(t.rows) |-> t.rows[i][1]]

\* t[:, :stop] with Python's slice rule: a negative stop counts from the end
SliceCols(t, stop) ==
  LET w == IF stop >= 0 THEN Min2(stop, t.width) ELSE Max2(t.width + stop, 0)
  IN  [ndim |-> 2, width |-> w,
       rows |-> [i \in 1..Len(t.rows) |-> SubSeq(t.rows[i], 1, w)]]

\* torch.max(t, 1)[1] of one row: the 0-based position of the first maximum
ArgMaxRow(row) ==
  (CHOOSE k \in 1..Len(row) :
      /\ \A j \in 1..Len(row) : row[j] <= row[k]
      /\ \A j \in 1..(k - 1) : row[j] < row[k]) - 1

ArgMax(t) == [i \in 1..Len(t.rows) |-> ArgMaxRow(t.rows[i])]

\* torch.min(t).item() and torch.max(t).item() of a non-empty 1-D tensor
TorchMin(ls) == CHOOSE m \in {ls[i] : i \in 1..Len(ls)} : \A i \in 1..Len(ls) : m <= ls[i]
TorchMax(ls) == CHOOSE m \in {ls[i] : i \in 1..Len(ls)} : \A i \in 1..Len(ls) : m >= ls[i]

(* --------------------------- count tables ----------------------------- *)

\* torch.zeros((n, n), dtype=torch.long)
Zeros(n) == [i \in 1..n |-> [j \in 1..n |-> 0]]

\* mutant of Pad: the zeros go in front, pad(cm, (d, 0, d, 0))
Pad_front(cm, d) ==
  LET n == Len(cm)
  IN  [i \in 1..(n + d) |->
        [j \in 1..(n + d) |-> IF i > d /\ j > d THEN cm[i - d][j - d] ELSE 0]]

\* pad(cm, (0, d, 0, d)): d zero columns on the right, d zero rows below
Pad(cm, d) ==
  LET n == Len(cm)
  IN  [i \in 1..(n + d) |->
        [j \in 1..(n + d) |-> IF i <= n /\ j <= n THEN cm[i][j] ELSE 0]]

\* mutant of Incr: cm[t][p] = 1
Incr_assign(cm, t, p) == [cm EXCEPT ![t + 1][p + 1] = 1]

\* cm[t][p] += 1
Incr(cm, t, p) == [cm EXCEPT ![t + 1][p + 1] = @ + 1]

\* for pattern_idx in range(len(true_y)): cm[true_y[i]][predicted_y[i]] += 1
RECURSIVE CountAll(_, _, _, _)
CountAll(cm, ts, ps, i) ==
  IF i > Len(ts) THEN cm
  ELSE CountAll(Incr(cm, ts[i], ps[i]), ts, ps, i + 1)

RECURSIVE SumSeq(_)
SumSeq(s) == IF s = <<>> THEN 0 ELSE Head(s) + SumSeq(Tail(s))

RowSum(cm, i) == SumSeq(cm[i])
ColSum(cm, j) == SumSeq([i \in 1..Len(cm) |-> cm[i][j]])
Total(cm) == SumSeq([i \in 1..Len(cm) |-> RowSum(cm, i)])


(* --------------------------- ConfusionMatrix -------------------------- *)

\* ConfusionMatrix.__init__: _cm_tensor is None (has_cm = FALSE)
ConfusionMatrix(nc, norm) ==
  [has_cm |-> FALSE, cm_tensor |-> <<>>, num_classes |-> nc, normalize |-> norm]

\* what one call leaves behind: the exception raised (or NoError), the
\* object after the call, and the class indices the samples were counted at
Outcome(e, self, ts, ps) == [err |-> e, self |-> self, true_idx |-> ts, pred_idx |-> ps]
\* mutant of Raise: the table is created before the inputs are validated
Raise_allocated(e, self) ==
  Outcome(e, [self EXCEPT !.has_cm = TRUE,
                          !.cm_tensor = IF self.has_cm THEN @ ELSE Zeros(1)], <<>>, <<>>)
Raise(e, self) == Outcome(e, self, <<>>, <<>>)

\* SELECT VALID PORTION: 2-D input and num_classes fixed => t[:, :max_label]
SelectValid(t, self, max_label) ==
  IF t.ndim = 2 /\ self.num_classes # None THEN SliceCols(t, max_label) ELSE t

\* the width or label bound one input contributes to max_label when
\* num_classes is None
WithShape(max_label, t, self) ==
  IF self.num_classes = None THEN Max2(max_label, t.width - 1) ELSE max_label
WithLabels(max_label, ls, self) ==
  IF self.num_classes = None THEN Max2(max_label, TorchMax(ls)) ELSE max_label

\* mutant of TooLargeFor: > instead of >=
TooLargeFor_gt(ls, self) == self.num_classes # None /\ TorchMax(ls) > self.num_classes

\* elif torch.max(y).item() >= self._num_classes
TooLargeFor(ls, self) == self.num_classes # None /\ TorchMax(ls) >= self.num_classes

\* mutant of HasNegative: the largest label is tested instead of the smallest
HasNegative_max(ls) == TorchMax(ls) < 0

\* min_label < 0
HasNegative(ls) == TorchMin(ls) < 0

\* create or enlarge the table, then count every pattern
Accumulate(self, max_label, ts, ps) ==
  LET sized ==
        IF ~self.has_cm THEN Zeros(max_label + 1)
        ELSE IF max_label >= Len(self.cm_tensor)
             THEN Pad(self.cm_tensor, 1 + max_label - Len(self.cm_tensor))
             ELSE self.cm_tensor
  IN  [self EXCEPT !.has_cm = TRUE, !.cm_tensor = CountAll(sized, ts, ps, 1)]

\* ConfusionMatrix.update(true_y, predicted_y)
CM_update(self, true_y0, predicted_y0) ==
  IF TLen(true_y0) # TLen(predicted_y0) THEN Raise(ErrSizeMismatch, self)
  ELSE IF true_y0.ndim > 2 THEN Raise(ErrLabelsDim, self)
  ELSE IF predicted_y0.ndim > 2 THEN Raise(ErrPredsDim, self)
  ELSE
  LET max_label0 == IF self.num_classes = None THEN -1 ELSE self.num_classes - 1
      true_y == SelectValid(true_y0, self, max_label0)
      predicted_y == SelectValid(predicted_y0, self, max_label0)
      pl == Labels(predicted_y)
      tl == Labels(true_y)
  IN
  \* predictions
  IF predicted_y.ndim > 1 /\ predicted_y.width = 0 THEN Raise(ErrTorchZeroDim, self)
  ELSE IF predicted_y.ndim = 1 /\ TLen(predicted_y) = 0 THEN Raise(ErrTorchEmpty, self)
  ELSE IF predicted_y.ndim = 1 /\ HasNegative(pl) THEN Raise(ErrNegativePred, self)
  ELSE IF predicted_y.ndim = 1 /\ TooLargeFor(pl, self) THEN Raise(ErrPredTooLarge, self)
  ELSE
  LET max_label1 == IF predicted_y.ndim > 1 THEN WithShape(max_label0, predicted_y, self)
                    ELSE WithLabels(max_label0, pl, self)
      ps == IF predicted_y.ndim > 1 THEN ArgMax(predicted_y) ELSE pl
  IN
  \* targets
  IF true_y.ndim > 1 /\ true_y.width = 0 THEN Raise(ErrTorchZeroDim, self)
  ELSE IF true_y.ndim = 1 /\ TLen(true_y) = 0 THEN Raise(ErrTorchEmpty, self)
  ELSE IF true_y.ndim = 1 /\ HasNegative(tl) THEN Raise(ErrNegativeTrue, self)
  ELSE IF true_y.ndim = 1 /\ TooLargeFor(tl, self) THEN Raise(ErrTrueTooLarge, self)
  ELSE
  LET max_label == IF true_y.ndim > 1 THEN WithShape(max_label1, true_y, self)
                   ELSE WithLabels(max_label1, tl, self)
      ts == IF true_y.ndim > 1 THEN ArgMax(true_y) ELSE tl
  IN
  IF max_label < 0 THEN Raise(ErrNotPositive, self)
  ELSE Outcome(NoError, Accumulate(self, max_label, ts, ps), ts, ps)

(* ------------------------------ result ------------------------------- *)

RECURSIVE GCD(_, _)
GCD(a, b) == IF b = 0 THEN a ELSE GCD(b, a % b)

\* float64 division of a count by a sum, as the fraction <<num, den>> in
\* lowest terms; 0/0 is nan (<<0, 0>>) and x/0 is inf (<<1, 0>>)
NaN == <<0, 0>>
Inf == <<1, 0>>
Div(n, d) ==
  IF d = 0 THEN (IF n = 0 THEN NaN ELSE Inf)
  ELSE <<n \div GCD(n, d), d \div GCD(n, d)>>

\* np.nan_to_num on one cell: nan becomes 0.0; inf becomes the largest
\* finite double, which stays symbolic here
NanToNumCell(x) == IF x = NaN THEN <<0, 1>> ELSE x
nan_to_num(m) == [i \in 1..Len(m) |-> [j \in 1..Len(m[i]) |-> NanToNumCell(m[i][j])]]

\* mutant of InvalidNormalization: only a missing mode is refused
InvalidNormalization_none(normalization) == normalization = NoNorm

\* normalization not in ('true', 'pred', 'all')
InvalidNormalization(normalization) == normalization \notin {"true", "pred", "all"}

\* the three divisions of _normalize_cm (no branch divides for another mode)
Normalized(cm, normalization) ==
  [i \in 1..Len(cm) |-> [j \in 1..Len(cm) |->
     Div(cm[i][j],
         CASE normalization = "true" -> RowSum(cm, i)
           [] normalization = "pred" -> ColSum(cm, j)
           [] normalization = "all" -> Total(cm)
           [] OTHER -> 1)]]

\* a returned value: a tensor with its dtype, or nothing
NoValue == [dtype |-> "none", m |-> <<>>, image |-> FALSE]
LongTensor(m) == [dtype |-> "long", m |-> m, image |-> FALSE]
DoubleTensor(m) == [dtype |-> "float64", m |-> m, image |-> FALSE]

Returned(e, v, self) == [err |-> e, value |-> v, self |-> self]

\* ConfusionMatrix._normalize_cm(cm, normalization)
normalize_cm(self) ==
  IF InvalidNormalization(self.normalize) THEN Returned(ErrInvalidNorm, NoValue, self)
  ELSE Returned(NoError,
                DoubleTensor(nan_to_num(Normalized(self.cm_tensor, self.normalize))),
                self)

\* mutant of EmptyShape: num_classes is not looked at
EmptyShape_zero(self) == 0

\* matrix_shape when _cm_tensor is None
EmptyShape(self) == IF self.num_classes # None THEN self.num_classes ELSE 0

\* mutant of CM_result: reading the table also discards it
CM_result_reset(self) ==
  IF ~self.has_cm THEN Returned(NoError, LongTensor(Zeros(EmptyShape(self))), self)
  ELSE Returned(NoError, LongTensor(self.cm_tensor),
                [self EXCEPT !.has_cm = FALSE, !.cm_tensor = <<>>])

\* ConfusionMatrix.result()
CM_result(self) ==
  IF ~self.has_cm THEN Returned(NoError, LongTensor(Zeros(EmptyShape(self))), self)
  ELSE IF self.normalize # NoNorm THEN normalize_cm(self)
  ELSE Returned(NoError, LongTensor(self.cm_tensor), self)

\* ConfusionMatrix.reset()
CM_reset(self) == [self EXCEPT !.has_cm = FALSE, !.cm_tensor = <<>>]

(* ------------------------ StreamConfusionMatrix ----------------------- *)

\* StreamConfusionMatrix.reset(): a fresh ConfusionMatrix with the same settings
Stream_reset(self) ==
  [self EXCEPT !.matrix = ConfusionMatrix(self.num_classes, self.normalize)]

\* mutant of before_eval: the accumulator is kept
before_eval_keep(self) == self

\* StreamConfusionMatrix.before_eval(strategy)
before_eval(self) == Stream_reset(self)

\* StreamConfusionMatrix.update(true_y, predicted_y)
Stream_update(self, true_y, predicted_y) ==
  LET o == CM_update(self.matrix, true_y, predicted_y)
  IN  [o EXCEPT !.self = [self EXCEPT !.matrix = o.self]]

\* StreamConfusionMatrix.after_eval_iteration(strategy)
after_eval_iteration(self, strategy_mb_y, strategy_mb_pred) ==
  Stream_update(self, strategy_mb_y, strategy_mb_pred)

\* StreamConfusionMatrix.result()
Stream_result(self) ==
  LET r == CM_result(self.matrix)
  IN  [r EXCEPT !.self = [self EXCEPT !.matrix = r.self]]

\* StreamConfusionMatrix._package_result(strategy): the MetricValue holds the
\* matrix, beside its image when save_image is set
package_result(self) ==
  LET r == Stream_result(self)
  IN  IF r.err # NoError THEN r
      ELSE [r EXCEPT !.value = [r.value EXCEPT !.image = self.save_image]]

\* StreamConfusionMatrix.after_eval(strategy)
after_eval(self) == package_result(self)

(* ------------------------- the state machine -------------------------- *)

VARIABLES
  stream,   \* the StreamConfusionMatrix object: _matrix (the ConfusionMatrix
            \* object), num_classes, normalize, _save_image
  mb_y,     \* strategy.mb_y: the targets of the current minibatch
  mb_pred,  \* strategy.mb_pred: the model's output for the current minibatch
  call,     \* the last call made with this minibatch, and what it raised
  ret,      \* what the last call returned
  seen,     \* samples taken by successful updates since the table was last discarded
  dropped   \* samples the last reset discarded

vars == <<stream, mb_y, mb_pred, call, ret, seen, dropped>>

matrix == stream.matrix

\* one-hot score vectors of width w
ScoreRows(w) == {[j \in 1..w |-> IF j = k THEN 1 ELSE 0] : k \in 1..w}

\* the tensors of at most n samples: labels, score vectors, 3-D tensors
TensorsUpTo(n) ==
  {LabelTensor(ls) : ls \in SeqsUpTo(-1..MaxLabel, n)}
  \cup UNION {{ScoreTensor(w, rs) : rs \in SeqsUpTo(ScoreRows(w), n)} : w \in 0..MaxWidth}
  \cup {Tensor3D(k) : k \in 0..n}

\* the minibatches the training loop may hold
Tensors == TensorsUpTo(MaxLen)

Called(op, e, ts, ps) == [op |-> op, err |-> e, true_idx |-> ts, pred_idx |-> ps]
NoCall == Called("none", NoError, <<>>, <<>>)

\* StreamConfusionMatrix.__init__
StreamConfusionMatrix(nc, norm, img) ==
  [matrix |-> ConfusionMatrix(nc, norm), num_classes |-> nc, normalize |-> norm,
   save_image |-> img]

Configured(nc, norm, img, t, p) ==
  /\ stream = StreamConfusionMatrix(nc, norm, img)
  /\ mb_y = t
  /\ mb_pred = p
  /\ call = NoCall
  /\ ret = NoValue
  /\ seen = 0
  /\ dropped = 0

NumClassesChoices == {None} \cup 0..MaxClasses

\* a metric built with the default save_image
Init ==
  \E nc \in NumClassesChoices, norm \in Normalizations :
     Configured(nc, norm, TRUE, LabelTensor(<<>>), LabelTensor(<<>>))

\* the training loop loads the targets of the next minibatch
SetTargets ==
  /\ seen < MaxSamples
  /\ \E t \in Tensors : mb_y' = t
  /\ call' = NoCall
  /\ ret' = NoValue
  /\ UNCHANGED <<stream, mb_pred, seen, dropped>>

\* the training loop runs the model on the minibatch
SetPredictions ==
  /\ seen < MaxSamples
  /\ \E p \in Tensors : mb_pred' = p
  /\ call' = NoCall
  /\ ret' = NoValue
  /\ UNCHANGED <<stream, mb_y, seen, dropped>>

\* the state an update of the accumulator leaves
Updated(op, o) ==
  /\ stream' = o.self
  /\ call' = Called(op, o.err, o.true_idx, o.pred_idx)
  /\ ret' = NoValue
  /\ seen' = IF o.err = NoError THEN seen + TLen(mb_y) ELSE seen
  /\ UNCHANGED <<mb_y, mb_pred, dropped>>

\* the state a result of the accumulator leaves
Retrieved(op, r) ==
  /\ stream' = r.self
  /\ call' = Called(op, r.err, <<>>, <<>>)
  /\ ret' = r.value
  /\ UNCHANGED <<mb_y, mb_pred, seen, dropped>>

\* the state a reset of the accumulator leaves
Discarded(op, self) ==
  /\ stream' = self
  /\ call' = Called(op, NoError, <<>>, <<>>)
  /\ ret' = NoValue
  /\ seen' = 0
  /\ dropped' = seen
  /\ UNCHANGED <<mb_y, mb_pred>>

\* ConfusionMatrix.update(true_y, predicted_y), called on the accumulator
Update ==
  /\ seen < MaxSamples
  /\ LET o == CM_update(matrix, mb_y, mb_pred)
     IN  Updated("update", [o EXCEPT !.self = [stream EXCEPT !.matrix = o.self]])

\* ConfusionMatrix.result(), called on the accumulator
Result ==
  LET r == CM_result(matrix)
  IN  Retrieved("result", [r EXCEPT !.self = [stream EXCEPT !.matrix = r.self]])

\* ConfusionMatrix.reset(), called on the accumulator
Reset == Discarded("reset", [stream EXCEPT !.matrix = CM_reset(matrix)])

\* the plugin hooks, called by the training loop
BeforeEval == Discarded("before_eval", before_eval(stream))

AfterEvalIteration ==
  /\ seen < MaxSamples
  /\ Updated("after_eval_iteration", after_eval_iteration(stream, mb_y, mb_pred))

AfterEval == Retrieved("after_eval", after_eval(stream))

Next == SetTargets \/ SetPredictions \/ Update \/ Result \/ Reset

Spec == Init /\ [][Next]_vars

\* the plugin as the training loop drives it, with either save_image setting
StreamInit ==
  \E nc \in NumClassesChoices, norm \in Normalizations, img \in BOOLEAN :
     Configured(nc, norm, img, LabelTensor(<<>>), LabelTensor(<<>>))

StreamNext == SetTargets \/ SetPredictions \/ BeforeEval \/ AfterEvalIteration \/ AfterEval

StreamSpec == StreamInit /\ [][StreamNext]_vars

\* update alone, on every minibatch of up to MaxBatch samples (update does
\* not read normalize, left at its default)
CallInit ==
  \E nc \in NumClassesChoices :
     \E t \in TensorsUpTo(MaxBatch), p \in TensorsUpTo(MaxBatch) :
        Configured(nc, NoNorm, TRUE, t, p)

CallNext == Update

CallSpec == CallInit /\ [][CallNext]_vars

(* ------------------------------ claims -------------------------------- *)

IsDirect(t) == t.ndim = 1
IsScores(t) == t.ndim = 2
HasLabelAtLeast(t, k) == IsDirect(t) /\ \E i \in 1..TLen(t) : t.rows[i][1] >= k
HasNegativeLabel(t) == IsDirect(t) /\ \E i \in 1..TLen(t) : t.rows[i][1] < 0
IsSquare(m, n) == Len(m) = n /\ \A i \in 1..Len(m) : Len(m[i]) = n

\* how many of the samples of the last call were counted at class pair (t, p)
CountedAt(c, t, p) ==
  Cardinality({k \in 1..Len(c.true_idx) : c.true_idx[k] = t /\ c.pred_idx[k] = p})

\* the shape checks of update pass: equal lengths, at most 2 dimensions
ShapesPass == TLen(mb_y) = TLen(mb_pred) /\ mb_y.ndim <= 2 /\ mb_pred.ndim <= 2

\* a score-vector input keeps a column to take the maximum over
KeepsAColumn(t) ==
  IsScores(t) => SelectValid(t, matrix, matrix.num_classes - 1).width >= 1

\* the predictions pass their own checks, so that the targets are looked at
PredictionsPass ==
  /\ KeepsAColumn(mb_pred)
  /\ IsDirect(mb_pred) =>
       /\ TLen(mb_pred) > 0
       /\ ~HasNegativeLabel(mb_pred)
       /\ matrix.num_classes # None => ~HasLabelAtLeast(mb_pred, matrix.num_classes)

\* C1: the cells of the count table sum to the number of samples the
\* successful update calls since construction or the last reset supplied.
C1_SumEqualsSamples ==
  IF matrix.has_cm THEN Total(matrix.cm_tensor) = seen ELSE seen = 0

\* a successful update on a table that already held samples
C1_Witness ==
  /\ call.op = "update" /\ call.err = NoError
  /\ TLen(mb_y) >= 1 /\ seen > TLen(mb_y)
  /\ IsScores(mb_pred)

\* C2: with num_classes not fixed the table is square, its dimension never
\* decreases between two resets, and an update that needs a larger dimension
\* pads with zeros: each cell of the new table is the old count at the same
\* coordinates (zero outside the old table) plus the samples just counted there.
C2_GrowsByZeroPadding ==
  [][(matrix.num_classes = None /\ matrix'.has_cm) =>
       LET old == matrix.cm_tensor
           new == matrix'.cm_tensor
           n == IF matrix.has_cm THEN Len(old) ELSE 0
           updated == call'.op = "update" /\ call'.err = NoError
       IN  /\ Len(new) >= n
           /\ IsSquare(new, Len(new))
           /\ \A i \in 1..Len(new), j \in 1..Len(new) :
                new[i][j] = (IF i <= n /\ j <= n THEN old[i][j] ELSE 0)
                            + (IF updated THEN CountedAt(call', i - 1, j - 1) ELSE 0)]_vars

\* a 1 x 1 or 2 x 2 table holding a count at (0, 0) has grown to 3 x 3
C2_Witness ==
  /\ matrix.num_classes = None /\ matrix.has_cm
  /\ call.op = "update" /\ call.err = NoError
  /\ seen = 2 /\ Len(matrix.cm_tensor) = 3
  /\ matrix.cm_tensor[1][1] = 1
  /\ call.true_idx = <<2>> /\ call.pred_idx = <<2>>

\* C3 (as claimed): with num_classes fixed to K, a score-vector input is cut
\* to its first K columns, and the class of a sample is the position of the
\* maximum among those K scores.
C3_TruncatesToNumClasses ==
  (call.op = "update" /\ call.err = NoError /\ matrix.num_classes # None) =>
     /\ IsScores(mb_pred) => call.pred_idx = ArgMax(SliceCols(mb_pred, matrix.num_classes))
     /\ IsScores(mb_y) => call.true_idx = ArgMax(SliceCols(mb_y, matrix.num_classes))

\* C4: an update that raises leaves the accumulator as it was: no cell
\* incremented, no table created or resized.
C4_FailedUpdateChangesNothing ==
  [][(call'.op = "update" /\ call'.err # NoError) => (stream' = stream /\ seen' = seen)]_vars

\* an update rejected for its targets, after its predictions were accepted,
\* on a table that holds samples
C4_Witness ==
  /\ call.op = "update" /\ call.err = ErrNegativeTrue
  /\ matrix.has_cm /\ seen >= 1
  /\ HasNegativeLabel(mb_y) /\ ~HasNegativeLabel(mb_pred)

\* C5: with num_classes fixed to K, an update with a direct label >= K in the
\* targets or in the predictions fails; when no earlier check rejects the
\* call, the error is the out-of-range one of the offending input.
C5_LargeLabelRejected ==
  LET K == matrix.num_classes
  IN  (call.op = "update" /\ K # None
       /\ (HasLabelAtLeast(mb_y, K) \/ HasLabelAtLeast(mb_pred, K))) =>
        /\ call.err # NoError
        /\ (ShapesPass /\ ~HasNegativeLabel(mb_pred) /\ HasLabelAtLeast(mb_pred, K))
             => call.err = ErrPredTooLarge
        /\ (ShapesPass /\ PredictionsPass /\ ~HasNegativeLabel(mb_y))
             => call.err = ErrTrueTooLarge

\* num_classes = 2, targets [0, 2], score-vector predictions
C5_Witness ==
  /\ call.op = "update" /\ matrix.num_classes = 2
  /\ mb_y = LabelTensor(<<0, 2>>) /\ IsScores(mb_pred)
  /\ call.err = ErrTrueTooLarge

\* C6: with num_classes configured to K, every matrix result() returns is
\* K x K (zero-filled while there is no table); with num_classes not
\* configured, result() without a table returns a 0 x 0 matrix, not an error.
C6_ResultShape ==
  LET K == matrix.num_classes
  IN  call.op = "result" =>
        /\ ~matrix.has_cm =>
             /\ call.err = NoError
             /\ ret = LongTensor(Zeros(IF K # None THEN K ELSE 0))
        /\ (K # None /\ call.err = NoError) => IsSquare(ret.m, K)
        /\ (K # None /\ matrix.has_cm) => IsSquare(matrix.cm_tensor, K)

\* result() after an update of a metric with num_classes = 2
C6_Witness ==
  /\ call.op = "result" /\ call.err = NoError
  /\ matrix.num_classes = 2 /\ matrix.has_cm /\ seen >= 1

\* C7: the matrix after_eval packages counts the samples of the minibatches
\* after_eval_iteration took since the last before_eval, and nothing older:
\* before_eval leaves no table, and the table after_eval reads holds exactly
\* the samples counted since.
C7_PackagedCountsSinceBeforeEval ==
  /\ call.op = "before_eval" => ~matrix.has_cm
  /\ (call.op = "after_eval" /\ call.err = NoError) =>
       /\ ret.image = stream.save_image
       /\ IF matrix.has_cm THEN Total(matrix.cm_tensor) = seen
          ELSE seen = 0 /\ ret.dtype = "long" /\ Total(ret.m) = 0
       /\ stream.normalize = NoNorm =>
            /\ ret.dtype = "long"
            /\ Total(ret.m) = seen
            /\ matrix.has_cm => ret.m = matrix.cm_tensor

\* after_eval of a second evaluation: before_eval discarded samples, and
\* minibatches were counted after it
C7_Witness ==
  /\ call.op = "after_eval" /\ call.err = NoError
  /\ stream.normalize = NoNorm
  /\ dropped >= 1 /\ seen >= 1

ValidModes == {NoNorm, "true", "pred", "all"}

\* C8 (as claimed): an unrecognized normalize makes result() raise the
\* configuration error in every state.
C8_InvalidModeAlwaysRaises ==
  (call.op = "result" /\ matrix.normalize \notin ValidModes) => call.err = ErrInvalidNorm

\* C8 (amended): an unrecognized normalize makes result() raise the
\* configuration error when the accumulator holds a table; without a table
\* (never updated, or just reset) result() returns the zero matrix and the
\* mode is not looked at.
C8_InvalidModeRaisesWithTable ==
  (call.op = "result" /\ matrix.normalize \notin ValidModes) =>
     IF matrix.has_cm THEN call.err = ErrInvalidNorm /\ ret = NoValue
     ELSE call.err = NoError /\ ret = LongTensor(Zeros(EmptyShape(matrix)))

\* result() raising on a table that holds a sample
C8_Witness ==
  /\ call.op = "result" /\ matrix.normalize = "rows"
  /\ matrix.has_cm /\ seen >= 1
  /\ call.err = ErrInvalidNorm

\* an error that names the targets, and one that names the predictions
CitesTrue(e) == e = ErrNegativeTrue /\ e # ErrNegativePred
CitesPred(e) == e = ErrNegativePred /\ e # ErrNegativeTrue

\* C9 (as claimed): an update with a negative direct label fails, and the
\* negative-label error tells which input held it.
C9_NegativeErrorCitesInput ==
  (call.op = "update" /\ (HasNegativeLabel(mb_y) \/ HasNegativeLabel(mb_pred))) =>
     /\ call.err # NoError
     /\ (ShapesPass /\ HasNegativeLabel(mb_pred)) => CitesPred(call.err)
     /\ (ShapesPass /\ PredictionsPass /\ HasNegativeLabel(mb_y)) => CitesTrue(call.err)

\* C9 (amended): an update with a negative direct label fails; when no
\* earlier check rejects the call the error is the negative-label error,
\* whose message is the same for the targets and for the predictions.
C9_NegativeLabelRejected ==
  (call.op = "update" /\ (HasNegativeLabel(mb_y) \/ HasNegativeLabel(mb_pred))) =>
     /\ call.err # NoError
     /\ (ShapesPass /\ HasNegativeLabel(mb_pred)) => call.err = ErrNegativePred
     /\ (ShapesPass /\ PredictionsPass /\ HasNegativeLabel(mb_y)) =>
          call.err = ErrNegativeTrue /\ call.err = ErrNegativePred

\* targets [0, -1] against valid direct predictions
C9_Witness ==
  /\ call.op = "update" /\ call.err = ErrNegativeTrue
  /\ mb_y = LabelTensor(<<0, -1>>)
  /\ IsDirect(mb_pred) /\ ~HasNegativeLabel(mb_pred)

\* C10: result() changes nothing of the accumulator (the table, which stays
\* one of integer counts, num_classes, normalize), and a result() right
\* after a result() returns the same matrix.
C10_ResultHasNoSideEffects ==
  [][call'.op = "result" =>
       /\ stream' = stream
       /\ seen' = seen
       /\ matrix'.has_cm =>
            \A i \in 1..Len(matrix'.cm_tensor), j \in 1..Len(matrix'.cm_tensor) :
               matrix'.cm_tensor[i][j] \in Nat
       /\ call.op = "result" => (ret' = ret /\ call'.err = call.err)]_vars

\* a normalized result() of a table that holds samples
C10_Witness ==
  /\ call.op = "result" /\ call.err = NoError
  /\ matrix.normalize = "true" /\ matrix.has_cm /\ seen >= 2
  /\ ret.dtype = "float64"

=============================================================================
